---- MODULE Spec2Model ----
(***************************************************************************)
(* Athlete image generator (src/app.py): the crop planner                  *)
(* crop_to_aspect_ratio, the per-artifact renderer process_image and the   *)
(* batch loop of main's "Generate Images" handler.                         *)
(*                                                                         *)
(* Python evaluates the aspect ratios and the crop extents in IEEE-754     *)
(* double precision.  The doubles are modelled bit-exactly: a double is a  *)
(* record [e, m] of value m * 2^(e - 52) whose 53-bit significand m is a   *)
(* little-endian sequence of NLimbs limbs of LimbBits bits each.           *)
(***************************************************************************)
EXTENDS Integers, Sequences, FiniteSets, TLC

(***************************************************************************)
(* Bounds of the model.                                                    *)
(***************************************************************************)
\* source images of every size 1..MaxDim x 1..MaxDim are cropped
MaxDim == 9

(***************************************************************************)
(* Multi-limb naturals: the significands of doubles and their products.    *)
(***************************************************************************)
\* a multi-limb natural is a tuple of NLimbs limbs, the lowest first
LimbBits == 15
NLimbs == 5
MantBits == 53
Base == 2^LimbBits
Limbs == 1..NLimbs

RECURSIVE IntBitLen(_)
IntBitLen(n) == IF n = 0 THEN 0 ELSE 1 + IntBitLen(n \div 2)

BigFromInt(n) ==
    LET L(i) == IF i = 1 THEN n % Base
                ELSE IF i = 2 THEN (n \div Base) % Base
                ELSE IF i = 3 THEN n \div (Base * Base)
                ELSE 0
    IN  << L(1), L(2), L(3), L(4), L(5) >>

BigToInt(x) == x[1] + (Base * x[2]) + (Base * Base * x[3])

\* 2x + bit
BigDouble(x, bit) ==
    LET L(i) == ((2 * x[i]) % Base)
                + (IF i = 1 THEN bit ELSE x[i-1] \div (Base \div 2))
    IN  << L(1), L(2), L(3), L(4), L(5) >>

RECURSIVE BigShl(_, _)
\* x * 2^n (the test on Len has each doubling computed before the next)
BigShl(x, n) ==
    IF n = 0 \/ Len(x) # NLimbs THEN x ELSE BigShl(BigDouble(x, 0), n - 1)

RECURSIVE BigCmpFrom(_, _, _)
BigCmpFrom(x, y, i) ==
    IF i = 0 THEN 0
    ELSE IF x[i] > y[i] THEN 1
    ELSE IF x[i] < y[i] THEN -1
    ELSE BigCmpFrom(x, y, i - 1)

\* -1, 0, 1 as x < y, x = y, x > y
BigCmp(x, y) == BigCmpFrom(x, y, NLimbs)

RECURSIVE BigBorrow(_, _, _)
BigBorrow(x, y, i) ==
    IF i = 1 THEN 0
    ELSE IF x[i-1] - y[i-1] - BigBorrow(x, y, i - 1) < 0 THEN 1 ELSE 0

\* x - y, for x >= y
BigSub(x, y) ==
    LET L(i) == (x[i] - y[i] - BigBorrow(x, y, i) + Base) % Base
    IN  << L(1), L(2), L(3), L(4), L(5) >>

RECURSIVE BigMulCarry(_, _, _)
BigMulCarry(x, h, i) ==
    IF i = 1 THEN 0 ELSE (x[i-1] * h + BigMulCarry(x, h, i - 1)) \div Base

\* x * h, for a small h
BigMulSmall(x, h) ==
    LET L(i) == (x[i] * h + BigMulCarry(x, h, i)) % Base
    IN  << L(1), L(2), L(3), L(4), L(5) >>

RECURSIVE BigIncCarry(_, _)
BigIncCarry(x, i) ==
    IF i = 1 THEN 1
    ELSE IF x[i-1] = Base - 1 /\ BigIncCarry(x, i - 1) = 1 THEN 1 ELSE 0

BigInc(x) ==
    LET L(i) == (x[i] + BigIncCarry(x, i)) % Base
    IN  << L(1), L(2), L(3), L(4), L(5) >>

BigLimb(x, j) == IF j \in Limbs THEN x[j] ELSE 0

\* x \div 2^n
BigShr(x, n) ==
    LET q == n \div LimbBits
        r == n % LimbBits
        L(i) == (BigLimb(x, i + q) \div (2^r))
                + ((BigLimb(x, i + q + 1) % (2^r)) * (2^(LimbBits - r)))
    IN  << L(1), L(2), L(3), L(4), L(5) >>

\* bit k of x, bit 0 the lowest
BigBit(x, k) == (x[(k \div LimbBits) + 1] \div (2^(k % LimbBits))) % 2

RECURSIVE BigBitLenFrom(_, _)
BigBitLenFrom(x, i) ==
    IF i = 0 THEN 0
    ELSE IF x[i] # 0 THEN (i - 1) * LimbBits + IntBitLen(x[i])
    ELSE BigBitLenFrom(x, i - 1)

BigBitLen(x) == BigBitLenFrom(x, NLimbs)

(***************************************************************************)
(* IEEE-754 doubles, round-to-nearest-even.                                *)
(***************************************************************************)
\* the double nearest to q * 2^(e - 52) (+ a remainder below the last bit of
\* q: up when more than half, tie when exactly half), q of MantBits bits
FloatRound(q, e, up, tie) ==
    LET bump == up \/ (tie /\ BigBit(q, 0) = 1)
        m    == IF bump THEN BigInc(q) ELSE q
    IN  IF BigBitLen(m) > MantBits
        THEN [e |-> e + 1, m |-> BigShr(m, 1)]
        ELSE [e |-> e, m |-> m]

\* the exponent k of a / b: 2^k <= a / b < 2^(k+1)
NormExp(a, b) ==
    LET d  == IntBitLen(a) - IntBitLen(b)
        ge == IF d >= 0 THEN a >= b * 2^d ELSE a * 2^(-d) >= b
    IN  IF ge THEN d ELSE d - 1

RECURSIVE IntDivStep(_, _, _, _)
\* long division, one quotient bit a step: r < 2 * den is twice the remainder
IntDivStep(r, den, q, n) ==
    IF n = 0 \/ Len(q) # NLimbs THEN <<q, r>>
    ELSE LET bit == IF r >= den THEN 1 ELSE 0
         IN  IntDivStep(2 * (r - bit * den), den, BigDouble(q, bit), n - 1)

\* a / b of two positive ints: Python's true division
FloatDivInt(a, b) ==
    LET k   == NormExp(a, b)
        num == IF k >= 0 THEN a ELSE a * 2^(-k)
        den == IF k >= 0 THEN b * 2^k ELSE b
        qr  == IntDivStep(num, den, BigFromInt(0), MantBits)
    IN  FloatRound(qr[1], k, qr[2] > den, qr[2] = den)

\* -1, 0, 1 as f < g, f = g, f > g (positive doubles)
FloatCmp(f, g) ==
    IF f.e > g.e THEN 1
    ELSE IF f.e < g.e THEN -1
    ELSE BigCmp(f.m, g.m)

\* h * f of a positive int h < Base and a double f
FloatMulInt(h, f) ==
    LET p      == BigMulSmall(f.m, h)
        s      == BigBitLen(p) - MantBits
        guard  == s > 0 /\ BigBit(p, s - 1) = 1
        sticky == \E k \in 0..(s - 2) : BigBit(p, k) = 1
    IN  FloatRound(BigShr(p, s), f.e + s, guard /\ sticky, guard /\ ~sticky)

RECURSIVE BigDivStep(_, _, _, _)
BigDivStep(r, den, q, n) ==
    IF n = 0 \/ Len(q) # NLimbs \/ Len(r) # NLimbs THEN <<q, r>>
    ELSE LET ge == BigCmp(r, den) >= 0
         IN  BigDivStep(BigDouble(IF ge THEN BigSub(r, den) ELSE r, 0), den,
                        BigDouble(q, IF ge THEN 1 ELSE 0), n - 1)

\* w / f of a positive int w and a double f
FloatDivIntBy(w, f) ==
    LET lw == IntBitLen(w)
        wa == BigShl(BigFromInt(w), MantBits - lw)
        ge == BigCmp(wa, f.m) >= 0
        qr == BigDivStep(IF ge THEN wa ELSE BigDouble(wa, 0), f.m,
                         BigFromInt(0), MantBits)
        c  == BigCmp(qr[2], f.m)
    IN  FloatRound(qr[1], IF ge THEN lw - 1 - f.e ELSE lw - 2 - f.e,
                   c > 0, c = 0)

\* a slip for int(f): round(f), to the nearest integer
FloatTruncRounds(f) ==
    IF f.e < -1 THEN 0
    ELSE IF f.e = -1 THEN 1
    ELSE BigToInt(BigShr(f.m, (MantBits - 1) - f.e))
         + (IF f.e < MantBits - 1 THEN BigBit(f.m, (MantBits - 2) - f.e) ELSE 0)

\* int(f): truncation toward zero
FloatTrunc(f) ==
    IF f.e < 0 THEN 0 ELSE BigToInt(BigShr(f.m, (MantBits - 1) - f.e))

(***************************************************************************)
(* OUTPUT_SPECS and crop_to_aspect_ratio.                                  *)
(***************************************************************************)
\* the four sizes, in the order main appends them to selected_sizes
OUTPUT_SPECS ==
    << [width |-> 256,  height |-> 256,  type |-> "avatar"],
       [width |-> 500,  height |-> 345,  type |-> "avatar"],
       [width |-> 1200, height |-> 1165, type |-> "hero"],
       [width |-> 1500, height |-> 920,  type |-> "hero"] >>

\* Python's round() of the half-integer n2 / 2: ties go to the even integer
RoundHalfEven(n2) ==
    IF n2 % 2 = 0 THEN n2 \div 2
    ELSE LET k == (n2 - 1) \div 2 IN IF k % 2 = 0 THEN k ELSE k + 1

\* Image.crop(box): the box is given in half pixels (left is a float, a
\* multiple of 0.5); Pillow rounds each bound with round() and cuts the
\* region, whose extent is the cropped image's size
ImageCrop(box2) ==
    LET region == << RoundHalfEven(box2[1]), RoundHalfEven(box2[2]),
                     RoundHalfEven(box2[3]), RoundHalfEven(box2[4]) >>
    IN  [box2   |-> box2,
         region |-> region,
         width  |-> region[3] - region[1],
         height |-> region[4] - region[2]]

\* the (left, top, right, bottom) of crop_to_aspect_ratio, in half pixels
CropBox2(img_width, img_height, target_width, target_height) ==
    LET target_aspect == FloatDivInt(target_width, target_height)
        image_aspect  == FloatDivInt(img_width, img_height)
        c             == FloatCmp(image_aspect, target_aspect)
    IN  IF c > 0
        THEN LET new_width == FloatTrunc(FloatMulInt(img_height, target_aspect))
                 left2     == img_width - new_width
             IN  << left2, 0, left2 + 2 * new_width, 2 * img_height >>
        ELSE IF c < 0
        THEN LET new_height == FloatTrunc(FloatDivIntBy(img_width, target_aspect))
             IN  << 0, 0, 2 * img_width, 2 * new_height >>
        ELSE << 0, 0, 2 * img_width, 2 * img_height >>

crop_to_aspect_ratio(image, target_width, target_height) ==
    ImageCrop(CropBox2(image.width, image.height, target_width, target_height))

(***************************************************************************)
(* State.                                                                  *)
(***************************************************************************)
VARIABLES
    front_profile_file,    \* the file of the "front_profile" uploader, or NoFile
    side_profile_file,     \* the file of the "side_profile" uploader, or NoFile
    session_state,         \* st.session_state: the five checkboxes
    pc,                    \* "idle", "processing" (inside the spinner) or "done"
    selected_sizes,        \* main's selected_sizes
    uploaded_files,        \* main's uploaded_files
    file_idx,              \* position of the loop over uploaded_files
    size_idx,              \* position of the loop over selected_sizes
    all_generated_images,  \* main's all_generated_images
    zip_buffer,            \* the member names written with zf.writestr, in order
    status,                \* the message the run ended with
    errors,                \* the st.error messages of process_image
    calls,                 \* history: the process_image calls and their results
    source_image,          \* the source handed to crop_to_aspect_ratio alone
    target_spec,           \* the OUTPUT_SPECS entry it is cropped for
    cropped                \* << what crop_to_aspect_ratio returned >>, << >> before

ui_vars    == << front_profile_file, side_profile_file, session_state >>
batch_vars == << pc, selected_sizes, uploaded_files, file_idx, size_idx,
                 all_generated_images, zip_buffer, status, errors, calls >>
crop_vars  == << source_image, target_spec, cropped >>
vars       == << ui_vars, batch_vars, crop_vars >>

NoImage == [width |-> 0, height |-> 0]
NoFile  == [stem |-> "", ext |-> "", decodable |-> FALSE, width |-> 0, height |-> 0]

SizeKeys == << "avatar_256", "avatar_500", "hero_1200", "hero_1500" >>
CheckboxKeys == {SizeKeys[i] : i \in 1..Len(SizeKeys)} \cup {"show_guideline"}

(***************************************************************************)
(* The inputs the model draws.                                             *)
(***************************************************************************)
\* the sizes of the spec's scenarios, and a height whose product with
\* 1200 / 1165 is not exact in double precision
ScenarioDims == {800, 1200, 3000, 4000, 3961, 4081}

Dims == (1..MaxDim) \cup ScenarioDims

\* names of the uploaded files: two share the stem
FileNames == { <<"athlete", ".jpg">>, <<"athlete", ".png">>, <<"side", ".tif">> }

\* decoded sizes of the uploaded files: a portrait, and a one-pixel-wide strip
SourceSizes == { <<800, 1200>>, <<1, 3>> }

Uploads ==
    { [stem |-> n[1], ext |-> n[2], decodable |-> FALSE, width |-> 0, height |-> 0]
        : n \in FileNames }
    \cup
    { [stem |-> n[1], ext |-> n[2], decodable |-> TRUE, width |-> z[1], height |-> z[2]]
        : n \in FileNames, z \in SourceSizes }

(***************************************************************************)
(* create_guideline_image, create_hero_guideline_image, process_image.     *)
(***************************************************************************)
create_guideline_image(width, height) ==
    [width |-> width, height |-> height, marks |-> "border"]

create_hero_guideline_image(width, height) ==
    [create_guideline_image(width, height) EXCEPT !.marks = "border+shoulder"]

\* uploaded_file.name
FileName(uploaded_file) == uploaded_file.stem \o uploaded_file.ext

\* the f-string of line 118
ArtifactName(original_filename, spec) ==
    original_filename \o "-" \o spec.type \o "_" \o ToString(spec.width)
        \o "x" \o ToString(spec.height) \o ".png"

\* crop_to_aspect_ratio on the sources the uploads decode to, for each size
\* of OUTPUT_SPECS: a table, so that each crop is computed once
CroppedImages ==
    { << z, spec, crop_to_aspect_ratio([width |-> z[1], height |-> z[2]],
                                       spec.width, spec.height) >>
        : z \in SourceSizes, spec \in {OUTPUT_SPECS[i] : i \in 1..Len(OUTPUT_SPECS)} }

CroppedImage(source, spec) ==
    (CHOOSE t \in CroppedImages :
        t[1] = << source.width, source.height >> /\ t[2] = spec)[3]

\* a slip for process_image: the canvas takes the size of the cropped image
process_image_canvas_of_crop(uploaded_file, size_spec, add_guideline) ==
    LET source == [width |-> uploaded_file.width, height |-> uploaded_file.height]
        cropped_image == CroppedImage(source, size_spec)
    IN  IF ~uploaded_file.decodable
        THEN {[kind |-> "raised", name |-> FileName(uploaded_file),
               width |-> 0, height |-> 0,
               overlay |-> "none", crop |-> << 0, 0, 0, 0 >>]}
        ELSE {[kind |-> "image",
               name |-> ArtifactName(uploaded_file.stem, size_spec),
               width |-> cropped_image.width, height |-> cropped_image.height,
               overlay |-> "none", crop |-> cropped_image.region]}

\* what process_image hands back to its caller, every way the call can end:
\*   "image"  the dict {"name", "data"}, data a PNG of width x height pixels;
\*   "none"   None, after the st.error of the except clause;
\*   "raised" an exception leaves the call: the except clause formats width
\*            and height, which are unbound when Image.open or convert failed.
\* Pillow's resize of an empty crop raises or yields a blank image, as the
\* library build has it: both outcomes are kept.
process_image(uploaded_file, size_spec, add_guideline) ==
    LET opened  == uploaded_file.decodable
        source  == [width |-> uploaded_file.width, height |-> uploaded_file.height]
        width   == size_spec.width
        height  == size_spec.height
        cropped_image == CroppedImage(source, size_spec)
        \* the canvas of line 107; the pastes of lines 108 and 116 keep its size
        bg      == [width |-> width, height |-> height]
        overlay == IF ~add_guideline THEN "none"
                   ELSE IF size_spec.type = "hero"
                        THEN create_hero_guideline_image(width, height).marks
                        ELSE create_guideline_image(width, height).marks
        made    == [kind |-> "image",
                    name |-> ArtifactName(uploaded_file.stem, size_spec),
                    width |-> bg.width, height |-> bg.height,
                    overlay |-> overlay,
                    crop |-> cropped_image.region]
        failed  == [kind |-> "none",
                    name |-> FileName(uploaded_file),
                    width |-> width, height |-> height,
                    overlay |-> "none", crop |-> cropped_image.region]
        raised  == [kind |-> "raised",
                    name |-> FileName(uploaded_file),
                    width |-> 0, height |-> 0,
                    overlay |-> "none", crop |-> << 0, 0, 0, 0 >>]
    IN  IF ~opened THEN {raised}
        ELSE IF cropped_image.width = 0 \/ cropped_image.height = 0
             THEN {made, failed}
             ELSE {made}

(***************************************************************************)
(* main: the widgets and the "Generate Images" handler.                    *)
(***************************************************************************)
Init ==
    /\ front_profile_file = NoFile
    /\ side_profile_file = NoFile
    /\ session_state = [k \in CheckboxKeys |-> k # "show_guideline"]
    /\ pc = "idle"
    /\ selected_sizes = << >>
    /\ uploaded_files = << >>
    /\ file_idx = 1
    /\ size_idx = 1
    /\ all_generated_images = << >>
    /\ zip_buffer = << >>
    /\ status = "none"
    /\ errors = << >>
    /\ calls = << >>
    /\ source_image = NoImage
    /\ target_spec = OUTPUT_SPECS[1]
    /\ cropped = << >>

UploadFront ==
    /\ pc = "idle"
    /\ \E f \in Uploads \cup {NoFile} : front_profile_file' = f
    /\ UNCHANGED << side_profile_file, session_state, batch_vars, crop_vars >>

UploadSide ==
    /\ pc = "idle"
    /\ \E f \in Uploads \cup {NoFile} : side_profile_file' = f
    /\ UNCHANGED << front_profile_file, session_state, batch_vars, crop_vars >>

ToggleCheckbox ==
    /\ pc = "idle"
    /\ \E k \in CheckboxKeys :
          session_state' = [session_state EXCEPT ![k] = ~@]
    /\ UNCHANGED << front_profile_file, side_profile_file, batch_vars, crop_vars >>

\* a slip for SelectedSizes: the hero sizes are appended before the avatar sizes
SelectedSizesHeroFirst(state) ==
    SelectSeq(<< OUTPUT_SPECS[3], OUTPUT_SPECS[4], OUTPUT_SPECS[1], OUTPUT_SPECS[2] >>,
              LAMBDA s : \E i \in 1..Len(SizeKeys) :
                            OUTPUT_SPECS[i] = s /\ state[SizeKeys[i]])

\* lines 197-205: the checked sizes, appended in the order of the four ifs
SelectedSizes(state) ==
    SelectSeq(OUTPUT_SPECS,
              LAMBDA s : \E i \in 1..Len(SizeKeys) :
                            OUTPUT_SPECS[i] = s /\ state[SizeKeys[i]])

\* line 212
UploadedFiles(front, side) ==
    SelectSeq(<< front, side >>, LAMBDA f : f # NoFile)

\* a slip for Generate: the test of line 207 is missing
GenerateUnchecked ==
    /\ pc = "idle"
    /\ IF front_profile_file = NoFile /\ side_profile_file = NoFile
       THEN /\ status' = "warning: upload at least one image"
            /\ pc' = "done"
            /\ UNCHANGED << selected_sizes, uploaded_files >>
       ELSE /\ selected_sizes' = SelectedSizes(session_state)
            /\ uploaded_files' =
                  UploadedFiles(front_profile_file, side_profile_file)
            /\ status' = "none"
            /\ pc' = "processing"
    /\ UNCHANGED << ui_vars, file_idx, size_idx, all_generated_images,
                    zip_buffer, errors, calls, crop_vars >>

\* the button, lines 192-214: a warning, or the spinner is entered
Generate ==
    /\ pc = "idle"
    /\ IF front_profile_file = NoFile /\ side_profile_file = NoFile
       THEN /\ status' = "warning: upload at least one image"
            /\ pc' = "done"
            /\ UNCHANGED << selected_sizes, uploaded_files >>
       ELSE /\ selected_sizes' = SelectedSizes(session_state)
            /\ IF selected_sizes' = << >>
               THEN /\ status' = "warning: select at least one output size"
                    /\ pc' = "done"
                    /\ UNCHANGED uploaded_files
               ELSE /\ uploaded_files' =
                          UploadedFiles(front_profile_file, side_profile_file)
                    /\ status' = "none"
                    /\ pc' = "processing"
    /\ UNCHANGED << ui_vars, file_idx, size_idx, all_generated_images,
                    zip_buffer, errors, calls, crop_vars >>

\* one pass of the inner loop, lines 216-221, and of process_image; an
\* exception that leaves process_image ends the run at line 248
ProcessImage ==
    /\ pc = "processing"
    /\ file_idx <= Len(uploaded_files)
    /\ size_idx <= Len(selected_sizes)
    /\ \E r \in process_image(uploaded_files[file_idx], selected_sizes[size_idx],
                              session_state["show_guideline"]) :
          /\ calls' = Append(calls, [file |-> file_idx,
                                     spec |-> selected_sizes[size_idx],
                                     result |-> r])
          /\ IF r.kind = "raised"
             THEN /\ status' = "error: an unexpected error occurred"
                  /\ pc' = "done"
                  /\ UNCHANGED << file_idx, size_idx, all_generated_images, errors >>
             ELSE /\ all_generated_images' =
                        IF r.kind = "image"
                        THEN Append(all_generated_images, r)
                        ELSE all_generated_images
                  /\ errors' = IF r.kind = "none" THEN Append(errors, r) ELSE errors
                  /\ IF size_idx < Len(selected_sizes)
                     THEN size_idx' = size_idx + 1 /\ file_idx' = file_idx
                     ELSE size_idx' = 1 /\ file_idx' = file_idx + 1
                  /\ UNCHANGED << status, pc >>
    /\ UNCHANGED << ui_vars, selected_sizes, uploaded_files, zip_buffer, crop_vars >>

\* lines 223-236: the archive is written and offered for download
WriteArchive ==
    /\ pc = "processing"
    /\ file_idx > Len(uploaded_files)
    /\ all_generated_images # << >>
    /\ zip_buffer' = [i \in 1..Len(all_generated_images) |->
                         all_generated_images[i].name]
    /\ status' = "success: download the ZIP"
    /\ pc' = "done"
    /\ UNCHANGED << ui_vars, selected_sizes, uploaded_files, file_idx, size_idx,
                    all_generated_images, errors, calls, crop_vars >>

\* lines 246-247
NothingGenerated ==
    /\ pc = "processing"
    /\ file_idx > Len(uploaded_files)
    /\ all_generated_images = << >>
    /\ status' = "error: no images were generated"
    /\ pc' = "done"
    /\ UNCHANGED << ui_vars, selected_sizes, uploaded_files, file_idx, size_idx,
                    all_generated_images, zip_buffer, errors, calls, crop_vars >>

Next ==
    \/ UploadFront
    \/ UploadSide
    \/ ToggleCheckbox
    \/ Generate
    \/ ProcessImage
    \/ WriteArchive
    \/ NothingGenerated

Spec == Init /\ [][Next]_vars

(***************************************************************************)
(* The crop planner alone, on every source size and every catalog size.    *)
(***************************************************************************)
CropInit ==
    /\ source_image \in [width : Dims, height : Dims]
    /\ target_spec \in {OUTPUT_SPECS[i] : i \in 1..Len(OUTPUT_SPECS)}
    /\ cropped = << >>
    /\ front_profile_file = NoFile
    /\ side_profile_file = NoFile
    /\ session_state = [k \in CheckboxKeys |-> k # "show_guideline"]
    /\ pc = "idle"
    /\ selected_sizes = << >>
    /\ uploaded_files = << >>
    /\ file_idx = 1
    /\ size_idx = 1
    /\ all_generated_images = << >>
    /\ zip_buffer = << >>
    /\ status = "none"
    /\ errors = << >>
    /\ calls = << >>

Crop ==
    /\ cropped = << >>
    /\ cropped' = << crop_to_aspect_ratio(source_image, target_spec.width,
                                          target_spec.height) >>
    /\ UNCHANGED << source_image, target_spec, ui_vars, batch_vars >>

CropNext == Crop

CropSpec == CropInit /\ [][CropNext]_vars

(***************************************************************************)
(* Properties of the crop planner, under CropSpec.                         *)
(***************************************************************************)
Returned == cropped # << >>
Region   == cropped[1].region
Box2     == cropped[1].box2
SrcW     == source_image.width
SrcH     == source_image.height
TgtW     == target_spec.width
TgtH     == target_spec.height
Wider    == SrcW * TgtH > SrcH * TgtW
Taller   == SrcW * TgtH < SrcH * TgtW

Abs(n) == IF n < 0 THEN -n ELSE n

\* c is a / b rounded to the nearest integer (a tie either way)
IsRounded(c, a, b) == 2 * Abs(c * b - a) <= b

\* c is a / b truncated toward zero; when a / b is whole, c may be one less
\* (the double product or quotient may fall just below the whole number)
IsTruncated(c, a, b) == c * b <= a /\ a <= (c + 1) * b

\* the extent the policy computes (crop width when the source is wider than
\* the target, crop height when it is taller), and the exact quotient
\* ExactNum / ExactDen it approximates
PolicyExtent == IF Wider THEN (Box2[3] - Box2[1]) \div 2 ELSE Box2[4] \div 2
ExactNum     == IF Wider THEN SrcH * TgtW ELSE SrcW * TgtH
ExactDen     == IF Wider THEN TgtH ELSE TgtW

\* the box is that of the top-anchored, horizontally centred policy
PolicyBox ==
    Box2 = IF Wider THEN << SrcW - PolicyExtent, 0, SrcW + PolicyExtent, 2 * SrcH >>
           ELSE IF Taller THEN << 0, 0, 2 * SrcW, 2 * PolicyExtent >>
           ELSE << 0, 0, 2 * SrcW, 2 * SrcH >>

IsSource(w, h, tw, th) == SrcW = w /\ SrcH = h /\ TgtW = tw /\ TgtH = th

\* C3, as claimed: the crop extent is rounded to the nearest pixel, and a
\* source of 800x1200 is cropped to (0, 0, 800, 491) for the 1500x920 target
C3_RoundToNearest ==
    Returned =>
        /\ PolicyBox
        /\ (Wider \/ Taller) => IsRounded(PolicyExtent, ExactNum, ExactDen)
        /\ IsSource(800, 1200, 1500, 920) => Region = << 0, 0, 800, 491 >>

\* C3, amended: crop_to_aspect_ratio computes the region of the top-anchored,
\* horizontally centred policy with the extent truncated toward zero (int()
\* of the double-precision product or quotient: floor, or one less where the
\* double falls just below a whole number), and Image.crop rounds the
\* half-pixel left and right bounds to the even neighbour.  800x1200 for
\* 1500x920 is cropped to (0, 0, 800, 490).
C3_TruncateTowardZero ==
    Returned =>
        /\ PolicyBox
        /\ (Wider \/ Taller) => IsTruncated(PolicyExtent, ExactNum, ExactDen)
        /\ \A i \in 1..4 :
              /\ Abs(2 * Region[i] - Box2[i]) <= 1
              /\ Box2[i] % 2 = 1 => Region[i] % 2 = 0
        /\ IsSource(800, 1200, 1500, 920) => Region = << 0, 0, 800, 490 >>
        /\ IsSource(4000, 3000, 256, 256) => Region = << 500, 0, 3500, 3000 >>
        /\ IsSource(4081, 3961, 1200, 1165) => Box2 = << 2, 0, 8160, 7922 >>

C3_Witness ==
    Returned /\ IsSource(800, 1200, 1500, 920) /\ Region = << 0, 0, 800, 490 >>

\* C4: the planner never returns a region whose width or height is below one
\* pixel (it signals a degenerate-crop error instead)
C4_NoDegenerateRegion ==
    Returned => cropped[1].width >= 1 /\ cropped[1].height >= 1

\* C5: every region satisfies 0 <= left < right <= source.width and
\* 0 <= top < bottom <= source.height
C5_RegionWithinSource ==
    Returned =>
        /\ 0 <= Region[1] /\ Region[1] < Region[3] /\ Region[3] <= SrcW
        /\ 0 <= Region[2] /\ Region[2] < Region[4] /\ Region[4] <= SrcH

\* C6: the region has the target aspect ratio within one pixel:
\* |cw - ch * tw / th| <= 1 or |ch - cw * th / tw| <= 1
C6_AspectWithinOnePixel ==
    Returned =>
        LET cw == cropped[1].width
            ch == cropped[1].height
        IN  \/ Abs(cw * TgtH - ch * TgtW) <= TgtH
            \/ Abs(ch * TgtW - cw * TgtH) <= TgtW

(***************************************************************************)
(* Properties of the batch, under Spec.                                    *)
(***************************************************************************)
NoSource      == front_profile_file = NoFile /\ side_profile_file = NoFile
NoSizeChecked == \A i \in 1..Len(SizeKeys) : ~session_state[SizeKeys[i]]
CheckedSizes  == {i \in 1..Len(SizeKeys) : session_state[SizeKeys[i]]}
Sources       == {f \in {front_profile_file, side_profile_file} : f # NoFile}
SourceCount   == (IF front_profile_file # NoFile THEN 1 ELSE 0)
                 + (IF side_profile_file # NoFile THEN 1 ELSE 0)
Accepted      == pc # "idle" /\ ~NoSource /\ ~NoSizeChecked
ArchiveReady  == status = "success: download the ZIP"
Rendered(c)   == c.result.kind = "image"
SpecIndex(s)  == CHOOSE i \in 1..Len(OUTPUT_SPECS) : OUTPUT_SPECS[i] = s

\* a source every size of the catalog can be rendered from
Renderable(f) == f.decodable /\ f.width >= 2 /\ f.height >= 2
RenderableCount ==
    (IF front_profile_file # NoFile /\ Renderable(front_profile_file) THEN 1 ELSE 0)
    + (IF side_profile_file # NoFile /\ Renderable(side_profile_file) THEN 1 ELSE 0)
UndecodableCount ==
    (IF front_profile_file # NoFile /\ ~front_profile_file.decodable THEN 1 ELSE 0)
    + (IF side_profile_file # NoFile /\ ~side_profile_file.decodable THEN 1 ELSE 0)

\* C1: with S renderable sources, one undecodable source and K selected
\* sizes, the run ends with an archive of exactly S * K entries, wherever the
\* undecodable source stands in upload order
C1_FailureAbortsOneArtifact ==
    (pc = "done" /\ Accepted /\ UndecodableCount = 1
        /\ RenderableCount = SourceCount - 1)
    => /\ Len(zip_buffer) = RenderableCount * Cardinality(CheckedSizes)
       /\ RenderableCount > 0 => ArchiveReady

\* C2: the member names written to the archive are pairwise distinct
C2_MemberNamesDistinct ==
    \A i, j \in 1..Len(zip_buffer) : i # j => zip_buffer[i] # zip_buffer[j]

\* C7: process_image is called source by source in upload order (front before
\* side) and, for each source, for the checked sizes in catalog order; once
\* the loops have ended every pair has been rendered; the archive holds the
\* names of the rendered artifacts in the order of the calls
C7_RenderingOrder ==
    /\ \A i, j \in 1..Len(calls) :
          i < j => \/ calls[i].file < calls[j].file
                   \/ /\ calls[i].file = calls[j].file
                      /\ SpecIndex(calls[i].spec) < SpecIndex(calls[j].spec)
    /\ \A i \in 1..Len(calls) :
          /\ SpecIndex(calls[i].spec) \in CheckedSizes
          /\ calls[i].file \in 1..SourceCount
          /\ LET f == IF calls[i].file = 1 /\ front_profile_file # NoFile
                      THEN front_profile_file ELSE side_profile_file
             IN  calls[i].result.name \in
                     {FileName(f), ArtifactName(f.stem, calls[i].spec)}
    /\ (pc = "processing" /\ file_idx > Len(uploaded_files))
          => Len(calls) = SourceCount * Cardinality(CheckedSizes)
    /\ ArchiveReady =>
          LET done == SelectSeq(calls, Rendered)
          IN  /\ Len(calls) = SourceCount * Cardinality(CheckedSizes)
              /\ zip_buffer = [i \in 1..Len(done) |-> done[i].result.name]

C7_Witness ==
    /\ ArchiveReady
    /\ front_profile_file.width = 800
    /\ side_profile_file.width = 800
    /\ front_profile_file.stem # side_profile_file.stem
    /\ CheckedSizes = {1, 3, 4}
    /\ Len(calls) = 6
    /\ Len(zip_buffer) = 6

\* C8: "Generate" with no source uploaded or no size checked is rejected
\* before any processing: no process_image call, no archive
C8_EmptyBatchRejected ==
    (pc # "idle" /\ (NoSource \/ NoSizeChecked))
    => /\ pc = "done"
       /\ calls = << >>
       /\ all_generated_images = << >>
       /\ zip_buffer = << >>
       /\ status \in {"warning: upload at least one image",
                      "warning: select at least one output size"}

C8_Witness ==
    pc = "done" /\ ~NoSource /\ NoSizeChecked
    /\ status = "warning: select at least one output size"

\* C9: the run of a non-empty batch ends with the archive exactly when some
\* pair was rendered, and with "no images were generated" when none was
C9_ArchiveIffRendered ==
    (pc = "done" /\ Accepted)
    => /\ ArchiveReady <=> \E i \in 1..Len(calls) : Rendered(calls[i])
       /\ (\A i \in 1..Len(calls) : ~Rendered(calls[i]))
             => status = "error: no images were generated"

\* C10: every artifact process_image returns has exactly the width and the
\* height of its size spec, and only these are in the batch result and in
\* the archive
C10_ArtifactHasSpecSize ==
    /\ \A i \in 1..Len(calls) :
          Rendered(calls[i]) =>
              /\ calls[i].result.width = calls[i].spec.width
              /\ calls[i].result.height = calls[i].spec.height
    /\ all_generated_images
          = LET done == SelectSeq(calls, Rendered)
            IN  [i \in 1..Len(done) |-> done[i].result]
    /\ zip_buffer # << >> =>
          zip_buffer = [i \in 1..Len(all_generated_images) |->
                           all_generated_images[i].name]

C10_Witness ==
    /\ ArchiveReady
    /\ \E i \in 1..Len(all_generated_images) :
          /\ all_generated_images[i].overlay = "border+shoulder"
          /\ all_generated_images[i].crop = << 0, 0, 800, 490 >>
          /\ all_generated_images[i].width = 1500
          /\ all_generated_images[i].height = 920

====
